---- MODULE Spec2Model ----
(***************************************************************************)
(* wErase: on-device background removal.                                   *)
(*                                                                         *)
(* Spec      the App component (src/unnamed/part_000): ingestion (onDrop), *)
(*           model switching (handleModelChange), deletion, together with  *)
(*           the model lifecycle manager and the segmentation call of      *)
(*           lib/process, which the App imports.                           *)
(* SpecEdit  the Images component and the EditModal                        *)
(*           (src/src/components/Camera.tsx, EditModal.tsx): opening the   *)
(*           modal, editing, rendering (applyChanges), saving, deleting.   *)
(* SpecEffects  the effect buttons and the slider of the EditModal, over   *)
(*           a longer sequence of changes.                                 *)
(* SpecPixels   the brightness and contrast loops of applyChanges over the *)
(*           pixels of the canvas, for every intensity and channel value.  *)
(***************************************************************************)
EXTENDS Integers, Sequences, FiniteSets, TLC

VARIABLES
  now,                \* Date.now(), in milliseconds since the session began
  nextFile,           \* the number the next File object gets (its identity)
  images,             \* App state: the ImageFile list
  isLoading,          \* App state
  error,              \* App state: NoError or the message of the AppError
  isWebGPU,           \* App state
  isIOS,              \* App state, set once on mount from getModelInfo()
  currentModel,       \* App state: the model shown as selected
  isModelSwitching,   \* App state
  drops,              \* the onDrop invocations that are suspended at an await
  switches,           \* the handleModelChange invocations suspended at their await
  calls,              \* per File: what became of its processImages call
  idOf,               \* per File: the id its record was created with (-1: not created)
  signal,             \* what the last initializeModel call returned to its caller
  gpuSupported,       \* getModelInfo().isWebGPUSupported of this device
  activeModelId,      \* lifecycle manager: the model ready for new work
  readiness,          \* lifecycle manager: its state
  editingImage,       \* Images state: the record being edited, or NoImage
  processedImageUrls, \* Images state: id -> edited override
  edit,               \* EditModal state: the seven editing fields
  exportUrl,          \* EditModal state: the last export
  renders,            \* the applyChanges invocations suspended at an await
  changes,            \* how many editing changes the user has made
  source,             \* the pixels of the canvas as getImageData returned them
  data,               \* imageData.data: red, green, blue, alpha of each pixel
  passes              \* how many times the effect loop has run over data

appVars == <<now, nextFile, images, isLoading, error, isWebGPU, isIOS, currentModel,
             isModelSwitching, drops, switches, calls, idOf, signal, gpuSupported,
             activeModelId, readiness>>
editVars == <<editingImage, processedImageUrls, edit, exportUrl, renders, changes>>
pixelVars == <<source, data, passes>>
vars == <<appVars, editVars, pixelVars>>

----------------------------------------------------------------------------
(* Bounds of the model. *)

\* the clock runs from 0 to MaxTime
MaxTime == 1
\* the largest number of files one drop, paste or capture brings
MaxBatch == 2
\* the number of File objects created in a session
MaxFiles == 3
\* the number of changes the user makes to the editing fields
MaxChanges == 2
\* the number of effect buttons pressed and slider moves in a session of effects
MaxMoves == 5
\* the number of times the effect loop runs over the same ImageData
MaxPasses == 2

----------------------------------------------------------------------------
(* Values. *)

CompatModel == "briaai/RMBG-1.4"
QualityModel == "Xenova/modnet"
\* the fixed model of a constrained (iOS) device
IOSModel == "ios-pinned"
SelectableModels == {CompatModel, QualityModel}

NoError == "null"
InitFalseMessage == "Failed to initialize background removal model"
SwitchFalseMessage == "Failed to initialize new model"
\* the message of an error thrown by initializeModel that is no fallback
ThrownMessage == "model error"
BusyMessage == "LifecycleBusy"
FallbackMessage == "Falling back to compatibility model"

NoFile == [kind |-> "none", of |-> 0]
\* the cutout processImages computes from File f
Seg(f) == [kind |-> "cutout", of |-> f]

Files == 1..MaxFiles
Ids == 0..(MaxTime + MaxBatch - 1)

----------------------------------------------------------------------------
(* The Image Collection Store: the setImages updaters of App. *)

RECURSIVE remove(_, _)
\* prev.filter(img => img.id !== id)
remove(prev, id) ==
  IF prev = <<>> THEN <<>>
  ELSE IF Head(prev).id # id
       THEN <<Head(prev)>> \o remove(Tail(prev), id)
       ELSE remove(Tail(prev), id)
\* prev.map(img => img.id === id ? { ...img, processedFile: result } : img)
markSegmented(prev, id, result) ==
  [i \in 1..Len(prev) |->
     IF prev[i].id = id THEN [prev[i] EXCEPT !.processedFile = result] ELSE prev[i]]

\* acceptedFiles.map((file, index) => ({ id: Date.now() + index, file, ... }))
newImagesOf(n, t, f) ==
  [i \in 1..n |-> [id |-> t + (i - 1), file |-> f + (i - 1), processedFile |-> NoFile]]

\* [...prev, ...newImages]
add(prev, newImages) == prev \o newImages

----------------------------------------------------------------------------
(* The model lifecycle manager and the segmentation call, lib/process.      *)
(* States Uninitialized, Initializing, Ready, Switching, Failed; one        *)
(* lifecycle operation in flight at a time, a second request is rejected    *)
(* as busy; the quality model falls back to the compatibility model.        *)

NoModel == "none"

\* a lifecycle operation is pending
Busy == readiness \in {"Initializing", "Switching"}

\* the state initializeModel enters when it accepts a request
startedReadiness == IF readiness = "Uninitialized" THEN "Initializing" ELSE "Switching"

\* on a constrained device the model id is forced regardless of the argument
forcedModel(target) == IF isIOS THEN IOSModel ELSE target

\* how a pending initializeModel(target) can end: true, false, a thrown error,
\* a thrown error whose message says "Falling back"
InitOutcomes(target) ==
  {"ok", "false", "throw"} \cup
    (IF target = QualityModel /\ ~isIOS THEN {"fallback"} ELSE {})

\* the manager's state when initializeModel(target) ends with outcome
readinessAfter(outcome) == IF outcome \in {"ok", "fallback"} THEN "Ready" ELSE "Failed"

activeModelAfter(target, outcome) ==
  CASE outcome = "ok" -> forcedModel(target)
    [] outcome = "fallback" -> CompatModel
    [] OTHER -> activeModelId

\* processImages([file]) called while the manager is in state r
submit(cs, f, r) == [cs EXCEPT ![f] = IF r = "Ready" THEN "running" ELSE "notReady"]

\* how a pending processImages call can end: a result, an empty result, a throw;
\* a call made while the model was not Ready fails with ModelNotReady
SegOutcomes(status) == IF status = "running" THEN {"ok", "empty", "throw"} ELSE {"throw"}

----------------------------------------------------------------------------
(* App: the handlers. *)

\* the File objects of an onDrop invocation
filesOf(t) == {t.files[i].file : i \in 1..Len(t.files)}

\* onDrop up to its first await. images.length is the value of the closure, that
\* of the last render: React renders between two events, so it is the length of
\* the list as the event finds it.
onDrop(n) ==
  /\ nextFile + n - 1 <= MaxFiles
  /\ nextFile' = nextFile + n
  /\ LET newImages == newImagesOf(n, now, nextFile) IN
     /\ idOf' = [f \in Files |-> IF f \in nextFile..(nextFile + n - 1)
                                 THEN newImages[f - nextFile + 1].id ELSE idOf[f]]
     /\ IF Len(images) = 0
        THEN IF Busy
             THEN \* initializeModel() is rejected; the catch block runs
                  /\ error' = BusyMessage
                  /\ images' = <<>>
                  /\ isLoading' = FALSE
                  /\ signal' = "busy"
                  /\ UNCHANGED <<drops, calls, readiness>>
             ELSE /\ isLoading' = TRUE
                  /\ error' = NoError
                  /\ images' = add(images, newImages)
                  /\ readiness' = startedReadiness
                  /\ signal' = "none"
                  /\ drops' = drops \cup {[files |-> newImages, idx |-> 0]}
                  /\ UNCHANGED calls
        ELSE /\ images' = add(images, newImages)
             /\ drops' = drops \cup {[files |-> newImages, idx |-> 1]}
             /\ calls' = submit(calls, newImages[1].file, readiness)
             /\ UNCHANGED <<isLoading, error, readiness, signal>>
  /\ UNCHANGED <<now, isWebGPU, isIOS, currentModel, isModelSwitching, switches,
                 gpuSupported, activeModelId, editVars, pixelVars>>

\* onDrop that starts the calls of all the new images at once, without awaiting
\* one before it makes the next (newImages.forEach(async image => ...))
InitDoneSubmittingAll(t, outcome) ==
  /\ t \in drops /\ t.idx = 0
  /\ outcome \in InitOutcomes(CompatModel)
  /\ readiness' = readinessAfter(outcome)
  /\ activeModelId' = activeModelAfter(CompatModel, outcome)
  /\ signal' = outcome
  /\ isLoading' = FALSE
  /\ IF outcome = "ok"
     THEN /\ isWebGPU' = gpuSupported
          /\ drops' = (drops \ {t}) \cup {[t EXCEPT !.idx = 1]}
          /\ calls' = [f \in Files |-> IF f \in filesOf(t) THEN "running" ELSE calls[f]]
          /\ UNCHANGED <<images, error>>
     ELSE /\ error' = (IF outcome = "false" THEN InitFalseMessage ELSE ThrownMessage)
          /\ images' = <<>>
          /\ drops' = drops \ {t}
          /\ UNCHANGED <<isWebGPU, calls>>
  /\ UNCHANGED <<now, nextFile, idOf, isIOS, currentModel, isModelSwitching, switches,
                 gpuSupported, editVars, pixelVars>>

\* onDrop resumed after `await initializeModel()`
InitDone(t, outcome) ==
  /\ t \in drops /\ t.idx = 0
  /\ outcome \in InitOutcomes(CompatModel)
  /\ readiness' = readinessAfter(outcome)
  /\ activeModelId' = activeModelAfter(CompatModel, outcome)
  /\ signal' = outcome
  /\ isLoading' = FALSE
  /\ IF outcome = "ok"
     THEN /\ isWebGPU' = gpuSupported
          /\ drops' = (drops \ {t}) \cup {[t EXCEPT !.idx = 1]}
          /\ calls' = submit(calls, t.files[1].file, "Ready")
          /\ UNCHANGED <<images, error>>
     ELSE /\ error' = (IF outcome = "false" THEN InitFalseMessage ELSE ThrownMessage)
          /\ images' = <<>>
          /\ drops' = drops \ {t}
          /\ UNCHANGED <<isWebGPU, calls>>
  /\ UNCHANGED <<now, nextFile, idOf, isIOS, currentModel, isModelSwitching, switches,
                 gpuSupported, editVars, pixelVars>>

\* onDrop resumed after `await processImages([image.file])`, to the next await
SegDone(t, outcome) ==
  /\ t \in drops /\ t.idx >= 1
  /\ LET image == t.files[t.idx]
         ended == [calls EXCEPT ![image.file] = IF outcome = "ok" THEN "ok" ELSE "failed"]
     IN
     /\ outcome \in SegOutcomes(calls[image.file])
     /\ images' = IF outcome = "ok"
                  THEN markSegmented(images, image.id, Seg(image.file))
                  ELSE images
     /\ IF t.idx < Len(t.files)
        THEN /\ drops' = (drops \ {t}) \cup {[t EXCEPT !.idx = t.idx + 1]}
             /\ calls' = submit(ended, t.files[t.idx + 1].file, readiness)
        ELSE /\ drops' = drops \ {t}
             /\ calls' = ended
  /\ UNCHANGED <<now, nextFile, idOf, signal, isLoading, error, isWebGPU, isIOS,
                 currentModel, isModelSwitching, switches, gpuSupported, activeModelId,
                 readiness, editVars, pixelVars>>

\* the model selector is enabled, or the "Switch to Cross-browser Version" button shows
canChangeModel(newModel) ==
  /\ newModel \in SelectableModels
  /\ newModel # currentModel
  /\ \/ ~isIOS /\ isWebGPU
     \/ /\ ~(isLoading \/ isModelSwitching)
        /\ error # NoError
        /\ currentModel = QualityModel
        /\ newModel = CompatModel

\* handleModelChange up to its await
handleModelChange(newModel) ==
  /\ canChangeModel(newModel)
  /\ IF Busy
     THEN \* initializeModel(newModel) is rejected; catch and finally run
          /\ error' = BusyMessage
          /\ isModelSwitching' = FALSE
          /\ signal' = "busy"
          /\ UNCHANGED <<switches, readiness>>
     ELSE /\ error' = NoError
          /\ isModelSwitching' = TRUE
          /\ readiness' = startedReadiness
          /\ signal' = "none"
          /\ switches' = switches \cup {[newModel |-> newModel]}
  /\ UNCHANGED <<now, nextFile, idOf, images, isLoading, isWebGPU, isIOS, currentModel,
                 drops, calls, gpuSupported, activeModelId, editVars, pixelVars>>

\* handleModelChange whose catch block does not tell a fallback from a failure
SwitchDoneFallbackAsFailure(s, outcome) ==
  /\ s \in switches
  /\ outcome \in InitOutcomes(s.newModel)
  /\ switches' = switches \ {s}
  /\ readiness' = readinessAfter(outcome)
  /\ activeModelId' = activeModelAfter(s.newModel, outcome)
  /\ signal' = outcome
  /\ currentModel' = IF outcome = "ok" THEN s.newModel ELSE currentModel
  /\ error' = CASE outcome = "false" -> SwitchFalseMessage
                [] outcome = "throw" -> ThrownMessage
                [] outcome = "fallback" -> FallbackMessage
                [] OTHER -> error
  /\ isModelSwitching' = FALSE
  /\ UNCHANGED <<now, nextFile, idOf, images, isLoading, isWebGPU, isIOS, drops, calls,
                 gpuSupported, editVars, pixelVars>>

\* handleModelChange that records the new model as selected before it knows the outcome
SwitchDoneOptimistic(s, outcome) ==
  /\ s \in switches
  /\ outcome \in InitOutcomes(s.newModel)
  /\ switches' = switches \ {s}
  /\ readiness' = readinessAfter(outcome)
  /\ activeModelId' = activeModelAfter(s.newModel, outcome)
  /\ signal' = outcome
  /\ currentModel' = IF outcome = "fallback" THEN CompatModel ELSE s.newModel
  /\ error' = CASE outcome = "false" -> SwitchFalseMessage
                [] outcome = "throw" -> ThrownMessage
                [] OTHER -> error
  /\ isModelSwitching' = FALSE
  /\ UNCHANGED <<now, nextFile, idOf, images, isLoading, isWebGPU, isIOS, drops, calls,
                 gpuSupported, editVars, pixelVars>>

\* handleModelChange resumed after `await initializeModel(newModel)`
SwitchDone(s, outcome) ==
  /\ s \in switches
  /\ outcome \in InitOutcomes(s.newModel)
  /\ switches' = switches \ {s}
  /\ readiness' = readinessAfter(outcome)
  /\ activeModelId' = activeModelAfter(s.newModel, outcome)
  /\ signal' = outcome
  /\ currentModel' = CASE outcome = "ok" -> s.newModel
                       [] outcome = "fallback" -> CompatModel
                       [] OTHER -> currentModel
  /\ error' = CASE outcome = "false" -> SwitchFalseMessage
                [] outcome = "throw" -> ThrownMessage
                [] OTHER -> error
  /\ isModelSwitching' = FALSE
  /\ UNCHANGED <<now, nextFile, idOf, images, isLoading, isWebGPU, isIOS, drops, calls,
                 gpuSupported, editVars, pixelVars>>

\* the Delete button of an ImageSpot, shown once the record has a processedFile
canDelete(id) ==
  \E i \in 1..Len(images) : images[i].id = id /\ images[i].processedFile # NoFile

\* onDelete: setImages(prev => prev.filter(img => img.id !== id))
onDelete(id) ==
  /\ canDelete(id)
  /\ images' = remove(images, id)
  /\ UNCHANGED <<now, nextFile, idOf, signal, isLoading, error, isWebGPU, isIOS,
                 currentModel, isModelSwitching, drops, switches, calls, gpuSupported,
                 activeModelId, readiness, editVars, pixelVars>>

\* a millisecond passes
Tick ==
  /\ now < MaxTime
  /\ now' = now + 1
  /\ UNCHANGED <<nextFile, idOf, signal, images, isLoading, error, isWebGPU, isIOS,
                 currentModel, isModelSwitching, drops, switches, calls, gpuSupported,
                 activeModelId, readiness, editVars, pixelVars>>

----------------------------------------------------------------------------
(* Images and EditModal: values. *)

NoImage == [id |-> -1, file |-> 0, processedFile |-> NoFile]
\* a key processedImageUrls does not hold
NoUrl == [kind |-> "undefined", canvas |-> <<>>]
\* the initial exportUrl, ''
EmptyUrl == [kind |-> "empty", canvas |-> <<>>]
NoOverrides == [id \in Ids |-> NoUrl]
InitialEdit == [bgType |-> "color", bgColor |-> "#ffffff", customBgImage |-> "null",
                selectedEffect |-> "none", blurValue |-> 50, brightnessValue |-> 50,
                contrastValue |-> 50]

\* no ImageData is held
InitPixelVars ==
  /\ source = <<>>
  /\ data = <<>>
  /\ passes = 0

InitEditVars ==
  /\ editingImage = NoImage
  /\ processedImageUrls = NoOverrides
  /\ edit = InitialEdit
  /\ exportUrl = EmptyUrl
  /\ renders = {}
  /\ changes = 0

----------------------------------------------------------------------------
(* The App specification. *)

Init ==
  /\ now = 0
  /\ nextFile = 1
  /\ images = <<>>
  /\ isLoading = FALSE
  /\ error = NoError
  /\ isWebGPU = FALSE
  /\ isIOS \in BOOLEAN
  /\ currentModel = CompatModel
  /\ isModelSwitching = FALSE
  /\ drops = {}
  /\ switches = {}
  /\ calls = [f \in Files |-> "unsubmitted"]
  /\ idOf = [f \in Files |-> -1]
  /\ signal = "none"
  /\ gpuSupported \in BOOLEAN
  /\ activeModelId = NoModel
  /\ readiness = "Uninitialized"
  /\ InitEditVars
  /\ InitPixelVars

Next ==
  \/ \E n \in 1..MaxBatch : onDrop(n)
  \/ \E t \in drops, outcome \in {"ok", "false", "throw"} : InitDone(t, outcome)
  \/ \E t \in drops, outcome \in {"ok", "empty", "throw"} : SegDone(t, outcome)
  \/ \E newModel \in SelectableModels : handleModelChange(newModel)
  \/ \E s \in switches, outcome \in {"ok", "false", "throw", "fallback"} :
       SwitchDone(s, outcome)
  \/ \E id \in Ids : onDelete(id)
  \/ Tick

Spec == Init /\ [][Next]_vars

----------------------------------------------------------------------------
(* EditModal: the canvas of applyChanges. A canvas is the sequence of the   *)
(* drawing operations applied to it.                                        *)

Colors == {"#ffffff", "#000000"}
SliderValues == {0, 50, 100}
Effects == {"none", "blur", "brightness", "contrast"}
BgTypes == {"color", "image"}
\* a background File the browser can decode, and one it cannot
BgFiles == {"decodable", "corrupt"}

Op(op, what, of, value) == [op |-> op, what |-> what, of |-> of, value |-> value]

\* ctx.fillStyle = bgColor; ctx.fillRect(0, 0, canvas.width, canvas.height)
fillRect(color) == <<Op("fillRect", color, 0, 0)>>

\* ctx.drawImage(bgImg, 0, 0, canvas.width, canvas.height)
drawBackground == <<Op("drawImage", "bgImg", 0, 0)>>

\* ctx.drawImage(img, 0, 0), img being the decoded processedFile
drawForeground(processedFile) == <<Op("drawImage", "img", processedFile.of, 0)>>

\* the stored intensity of an effect kind
intensity(cfg, kind) ==
  CASE kind = "blur" -> cfg.blurValue
    [] kind = "brightness" -> cfg.brightnessValue
    [] kind = "contrast" -> cfg.contrastValue

\* the "Apply effects" block
applyEffect(cfg) ==
  CASE cfg.selectedEffect = "blur" -> <<Op("filter", "blur", 0, cfg.blurValue)>>
    [] cfg.selectedEffect = "brightness" ->
         <<Op("putImageData", "brightness", 0, cfg.brightnessValue)>>
    [] cfg.selectedEffect = "contrast" ->
         <<Op("putImageData", "contrast", 0, cfg.contrastValue)>>
    [] OTHER -> <<>>

\* canvas.toDataURL('image/png')
toDataURL(canvas) == [kind |-> "png", canvas |-> canvas]

\* applyChanges waits for the background image to load
awaitsBackground(cfg) == cfg.bgType = "image" /\ cfg.customBgImage # "null"

\* the "Apply background" block
applyBackground(cfg) ==
  IF cfg.bgType = "color" THEN fillRect(cfg.bgColor)
  ELSE IF awaitsBackground(cfg) THEN drawBackground
  ELSE <<>>

\* a render that applies the effect before it draws the foreground
compositeEffectFirst(r) ==
  toDataURL(applyBackground(r.cfg) \o applyEffect(r.cfg) \o drawForeground(r.image))

\* applyChanges from the background on, to setExportUrl
composite(r) ==
  toDataURL(applyBackground(r.cfg) \o drawForeground(r.image) \o applyEffect(r.cfg))

----------------------------------------------------------------------------
(* Images and EditModal: the handlers. *)

isOpen == editingImage # NoImage

\* the useEffect of EditModal after a change of an editing field: applyChanges
\* up to `await new Promise(resolve => img.onload = resolve)`
applyChanges(cfg) ==
  IF editingImage.processedFile # NoFile
  THEN renders \cup {[image |-> editingImage.processedFile, cfg |-> cfg, pc |-> "img"]}
  ELSE renders

\* a state setter of an editing field, and the effect that follows
setEdit(cfg) ==
  /\ isOpen
  /\ changes' = changes + 1
  /\ edit' = cfg
  /\ renders' = applyChanges(cfg)
  /\ UNCHANGED <<editingImage, processedImageUrls, exportUrl, appVars, pixelVars>>

setBgType(type) ==
  /\ type # edit.bgType
  /\ setEdit([edit EXCEPT !.bgType = type])

setBgColor(color) ==
  /\ edit.bgType = "color"
  /\ color # edit.bgColor
  /\ setEdit([edit EXCEPT !.bgColor = color])

\* a File chosen in the file input is a new object, whatever it holds
setCustomBgImage(file) ==
  /\ edit.bgType = "image"
  /\ setEdit([edit EXCEPT !.customBgImage = file])

\* an effect button that also resets the sliders to their initial value
setSelectedEffectResetting(effect) ==
  /\ effect # edit.selectedEffect
  /\ setEdit([edit EXCEPT !.selectedEffect = effect, !.blurValue = 50,
                          !.brightnessValue = 50, !.contrastValue = 50])

setSelectedEffect(effect) ==
  /\ effect # edit.selectedEffect
  /\ setEdit([edit EXCEPT !.selectedEffect = effect])

getCurrentEffectValue ==
  CASE edit.selectedEffect = "blur" -> edit.blurValue
    [] edit.selectedEffect = "brightness" -> edit.brightnessValue
    [] edit.selectedEffect = "contrast" -> edit.contrastValue
    [] OTHER -> 50

handleEffectValueChange(value) ==
  /\ edit.selectedEffect # "none"
  /\ value # getCurrentEffectValue
  /\ setEdit(CASE edit.selectedEffect = "blur" -> [edit EXCEPT !.blurValue = value]
               [] edit.selectedEffect = "brightness" ->
                    [edit EXCEPT !.brightnessValue = value]
               [] edit.selectedEffect = "contrast" ->
                    [edit EXCEPT !.contrastValue = value]
               [] OTHER -> edit)

\* img.onload fires: applyChanges runs on, to the background's await or to its end
ImgLoaded(r) ==
  /\ r \in renders /\ r.pc = "img"
  /\ IF awaitsBackground(r.cfg)
     THEN /\ renders' = (renders \ {r}) \cup {[r EXCEPT !.pc = "bgImg"]}
          /\ UNCHANGED exportUrl
     ELSE /\ renders' = renders \ {r}
          /\ exportUrl' = composite(r)
  /\ UNCHANGED <<editingImage, processedImageUrls, edit, changes, appVars, pixelVars>>

\* bgImg.onload fires, which it does when the File decodes: applyChanges runs to its end
BgLoaded(r) ==
  /\ r \in renders /\ r.pc = "bgImg"
  /\ r.cfg.customBgImage = "decodable"
  /\ renders' = renders \ {r}
  /\ exportUrl' = composite(r)
  /\ UNCHANGED <<editingImage, processedImageUrls, edit, changes, appVars, pixelVars>>

\* the Edit button of an ImageSpot, shown once the record has a processedFile;
\* the open modal covers the page
onEdit(i) ==
  /\ ~isOpen
  /\ i \in 1..Len(images)
  /\ images[i].processedFile # NoFile
  /\ editingImage' = images[i]
  /\ UNCHANGED <<processedImageUrls, edit, exportUrl, renders, changes, appVars, pixelVars>>

\* the close and Cancel buttons
onClose ==
  /\ isOpen
  /\ editingImage' = NoImage
  /\ UNCHANGED <<processedImageUrls, edit, exportUrl, renders, changes, appVars, pixelVars>>

\* handleEditSave without the spread of prev: setProcessedImageUrls(() => ({ [imageId]: ... }))
handleEditSaveWithoutPrev(prev, imageId, editedImageUrl) ==
  [id \in Ids |-> IF id = imageId THEN editedImageUrl ELSE NoUrl]

\* setProcessedImageUrls(prev => ({ ...prev, [imageId]: editedImageUrl }))
handleEditSave(prev, imageId, editedImageUrl) == [prev EXCEPT ![imageId] = editedImageUrl]

\* Save Changes: onSave(exportUrl), then onClose()
handleSave ==
  /\ isOpen
  /\ processedImageUrls' = handleEditSave(processedImageUrls, editingImage.id, exportUrl)
  /\ editingImage' = NoImage
  /\ UNCHANGED <<edit, exportUrl, renders, changes, appVars, pixelVars>>

----------------------------------------------------------------------------
(* The specification of Images and EditModal: a session that holds two      *)
(* segmented images.                                                        *)

TwoSegmented ==
  /\ now = 0
  /\ nextFile = 3
  /\ images = <<[id |-> 0, file |-> 1, processedFile |-> Seg(1)],
                [id |-> 1, file |-> 2, processedFile |-> Seg(2)]>>
  /\ isLoading = FALSE
  /\ error = NoError
  /\ isWebGPU = FALSE
  /\ isIOS = FALSE
  /\ currentModel = CompatModel
  /\ isModelSwitching = FALSE
  /\ drops = {}
  /\ switches = {}
  /\ calls = [f \in Files |-> IF f \in {1, 2} THEN "ok" ELSE "unsubmitted"]
  /\ idOf = [f \in Files |-> IF f \in {1, 2} THEN f - 1 ELSE -1]
  /\ signal = "ok"
  /\ gpuSupported = FALSE
  /\ activeModelId = CompatModel
  /\ readiness = "Ready"

InitEdit == TwoSegmented /\ InitEditVars /\ InitPixelVars

NextEdit ==
  \/ \E i \in 1..Len(images) : onEdit(i)
  \/ onClose
  \/ handleSave
  \/ \E type \in BgTypes : changes < MaxChanges /\ setBgType(type)
  \/ \E color \in Colors : changes < MaxChanges /\ setBgColor(color)
  \/ \E file \in BgFiles \cup {"null"} : changes < MaxChanges /\ setCustomBgImage(file)
  \/ \E effect \in Effects : changes < MaxChanges /\ setSelectedEffect(effect)
  \/ \E value \in SliderValues : changes < MaxChanges /\ handleEffectValueChange(value)
  \/ \E r \in renders : ImgLoaded(r)
  \/ \E r \in renders : BgLoaded(r)
  \/ \E id \in Ids : onDelete(id)

SpecEdit == InitEdit /\ [][NextEdit]_vars

----------------------------------------------------------------------------
(* The specification of the effect controls: the modal is open on the first *)
(* image and the user presses effect buttons and moves the slider.          *)

InitEffects ==
  /\ TwoSegmented
  /\ editingImage = [id |-> 0, file |-> 1, processedFile |-> Seg(1)]
  /\ processedImageUrls = NoOverrides
  /\ edit = InitialEdit
  /\ exportUrl = EmptyUrl
  /\ renders = {}
  /\ changes = 0
  /\ InitPixelVars

NextEffects ==
  \/ \E effect \in Effects : changes < MaxMoves /\ setSelectedEffect(effect)
  \/ \E value \in SliderValues : changes < MaxMoves /\ handleEffectValueChange(value)
  \/ \E r \in renders : ImgLoaded(r)

SpecEffects == InitEffects /\ [][NextEffects]_vars

----------------------------------------------------------------------------
(* EditModal: the pixels of the brightness and contrast effects. The loops  *)
(* of applyChanges read and write imageData.data, a Uint8ClampedArray.      *)

Channel == 0..255
\* the values of the range input
Intensities == 0..100
AlphaValues == {0, 255}

\* a store of the number num / den (den > 0) that rounds and does not clamp
ToUint8Unclamped(num, den) ==
  LET f == num \div den
      twice == 2 * (num - f * den)
  IN IF twice > den THEN f + 1
     ELSE IF twice < den THEN f
     ELSE IF f % 2 = 0 THEN f ELSE f + 1

\* what an element of a Uint8ClampedArray holds after the number num / den
\* (den > 0) is stored into it: the number clamped to 0..255 and rounded to the
\* nearest integer, a tie to the even one
ToUint8Clamp(num, den) ==
  IF num <= 0 THEN 0
  ELSE IF num >= 255 * den THEN 255
  ELSE LET f == num \div den
           twice == 2 * (num - f * den)
       IN IF twice > den THEN f + 1
          ELSE IF twice < den THEN f
          ELSE IF f % 2 = 0 THEN f ELSE f + 1

\* data[i] = Math.min(255, data[i] * (brightnessValue / 50)): the values data[i]
\* can hold afterwards. The product is computed in double precision with the
\* rounded quotient brightnessValue / 50: where the exact product lies halfway
\* between two integers the double lies on it or on either side of it, and the
\* value stored is one of the two neighbours.
brightness(value, brightnessValue) ==
  LET num == value * brightnessValue
      den == 50
  IN IF num >= 255 * den THEN {ToUint8Clamp(255, 1)}
     ELSE IF 2 * (num % den) = den THEN {num \div den, num \div den + 1}
     ELSE {ToUint8Clamp(num, den)}

\* a contrast that sends every value to black or white, whatever the intensity
contrastThreshold(value, contrastValue) == IF value < 128 THEN 0 ELSE 255

\* factor = (259 * (contrastValue + 255)) / (255 * (259 - contrastValue));
\* data[i] = factor * (data[i] - 128) + 128
contrast(value, contrastValue) ==
  LET num == 259 * (contrastValue + 255)
      den == 255 * (259 - contrastValue)
  IN ToUint8Clamp(num * (value - 128) + 128 * den, den)

\* case 'brightness': the loop over data, red, green and blue of each pixel
brightnessLoop ==
  /\ edit.selectedEffect = "brightness"
  /\ passes < MaxPasses
  /\ passes' = passes + 1
  /\ \E red \in brightness(data[1], edit.brightnessValue),
        green \in brightness(data[2], edit.brightnessValue),
        blue \in brightness(data[3], edit.brightnessValue) :
       data' = <<red, green, blue, data[4]>>
  /\ UNCHANGED <<source, appVars, editVars>>

\* case 'contrast': the loop over data, red, green and blue of each pixel
contrastLoop ==
  /\ edit.selectedEffect = "contrast"
  /\ passes < MaxPasses
  /\ passes' = passes + 1
  /\ data' = <<contrast(data[1], edit.contrastValue),
               contrast(data[2], edit.contrastValue),
               contrast(data[3], edit.contrastValue),
               data[4]>>
  /\ UNCHANGED <<source, appVars, editVars>>

----------------------------------------------------------------------------
(* The specification of the effect loops: a render of the first image has   *)
(* reached the effect block with brightness or contrast selected, and       *)
(* getImageData has returned one pixel.                                     *)

InitPixels ==
  /\ TwoSegmented
  /\ editingImage = [id |-> 0, file |-> 1, processedFile |-> Seg(1)]
  /\ processedImageUrls = NoOverrides
  /\ \E value \in Intensities :
       \/ edit = [InitialEdit EXCEPT !.selectedEffect = "brightness",
                                     !.brightnessValue = value]
       \/ edit = [InitialEdit EXCEPT !.selectedEffect = "contrast",
                                     !.contrastValue = value]
  /\ exportUrl = EmptyUrl
  /\ renders = {[image |-> Seg(1), cfg |-> edit, pc |-> "img"]}
  /\ changes = IF edit = [InitialEdit EXCEPT !.selectedEffect = edit.selectedEffect]
               THEN 1 ELSE 2
  /\ \E value \in Channel, alpha \in AlphaValues :
       source = <<value, 255 - value, (value + 128) % 256, alpha>>
  /\ data = source
  /\ passes = 0

NextPixels ==
  \/ brightnessLoop
  \/ contrastLoop

SpecPixels == InitPixels /\ [][NextPixels]_vars

----------------------------------------------------------------------------
(* Properties of the App specification. *)

\* the positions of the list that hold the record of File f
positionsOf(list, f) == {i \in 1..Len(list) : list[i].file = f}

\* C1: at most one lifecycle operation is in flight: no second initializeModel
\* call is pending beside a first one, and every step that requests a switch
\* (handleModelChange) is taken while the manager is Ready or Failed.
C1_OneLifecycleOperationInFlight ==
  [][ /\ Cardinality({t \in drops' : t.idx = 0}) + Cardinality(switches') <= 1
      /\ \A newModel \in SelectableModels :
           handleModelChange(newModel) => readiness \in {"Ready", "Failed"}
    ]_vars

\* C2: no two records ever created carry the same id.
C2_IdsUnique ==
  \A f, g \in Files : (f # g /\ idOf[f] # -1 /\ idOf[g] # -1) => idOf[f] # idOf[g]

\* C3: the completion of a segmentation whose record has been removed from the
\* list is discarded: the list is left as it is (the id does not reappear and
\* no other record changes) and no error is raised.
C3_RemovedCompletionDiscarded ==
  [][ \A t \in drops : \A outcome \in {"ok", "empty", "throw"} :
        (/\ SegDone(t, outcome)
         /\ positionsOf(images, t.files[t.idx].file) = {})
        => (images' = images /\ error' = error)
    ]_vars

\* C4: batch isolation: when the segmentation of an item fails, the next item of
\* the batch is submitted all the same; an item whose own segmentation succeeded
\* and that is in the list holds its own cutout at that moment; an item whose
\* segmentation failed is never submitted again and stays without a cutout.
C4_BatchIsolation ==
  [][ /\ \A t \in drops : \A outcome \in {"ok", "empty", "throw"} :
           SegDone(t, outcome) =>
             /\ t.idx < Len(t.files) =>
                  calls'[t.files[t.idx + 1].file] \in {"running", "notReady"}
             /\ outcome = "ok" =>
                  \A i \in positionsOf(images', t.files[t.idx].file) :
                     images'[i].processedFile = Seg(t.files[t.idx].file)
      /\ \A f \in Files : calls[f] = "failed" => calls'[f] = "failed"
      /\ \A i \in 1..Len(images') :
           calls'[images'[i].file] = "failed" => images'[i].processedFile = NoFile
    ]_vars

C6_SegmentationGuardedByReadiness ==
  \A f \in Files : calls[f] # "notReady"

\* C7: a failure leaves the records of every other ingestion and image as they
\* are: a failed initialization keeps every record that is not of the failing
\* drop, at its place among them; a failed segmentation and a failed switch
\* leave the list unchanged.
C7_FailuresScoped ==
  [][ /\ \A t \in drops : \A outcome \in {"false", "throw"} :
           InitDone(t, outcome) =>
             images' = SelectSeq(images, LAMBDA img : img.file \notin filesOf(t))
      /\ \A t \in drops : \A outcome \in {"empty", "throw"} :
           SegDone(t, outcome) => images' = images
      /\ \A s \in switches : \A outcome \in {"false", "throw"} :
           SwitchDone(s, outcome) => images' = images
    ]_vars

\* C10: a successful completion sets the cutout of exactly the record whose File
\* was submitted, to the cutout computed from that File, and changes the cutout
\* of no other record.
C10_CompletionAttributedById ==
  [][ \A t \in drops :
        SegDone(t, "ok") =>
          /\ Len(images') = Len(images)
          /\ \A i \in 1..Len(images) :
               images'[i] =
                 IF images[i].file = t.files[t.idx].file
                 THEN [images[i] EXCEPT !.processedFile = Seg(images[i].file)]
                 ELSE images[i]
    ]_vars

\* C16: within a batch the images are submitted in the order they were added,
\* one at a time: while an onDrop invocation is suspended, the calls of the
\* images before its current one have all ended (with a result or a failure),
\* the call of the current one is pending, and no image after it has been
\* submitted; before the initialization has ended none has been submitted.
C16_BatchSubmittedInOrder ==
  \A t \in drops : \A i \in 1..Len(t.files) :
    calls[t.files[i].file] \in
      (IF i < t.idx THEN {"ok", "failed"}
       ELSE IF i = t.idx THEN {"running", "notReady"}
       ELSE {"unsubmitted"})

\* C16, the case: the first image of a batch of two has failed and the second
\* is being segmented.
C16_Witness ==
  \E t \in drops :
    /\ Len(t.files) = 2 /\ t.idx = 2
    /\ calls[t.files[1].file] = "failed"
    /\ calls[t.files[2].file] = "running"

\* C17: a switch that fails without fallback (initializeModel resolves false,
\* or throws an error that is no fallback) leaves the selected model as it
\* was, sets the error message of the failure and leaves the switching flag
\* false: the failed switch does not record its model as selected.
C17_FailedSwitchKeepsSelection ==
  [][ \A s \in switches : \A outcome \in {"false", "throw"} :
        SwitchDone(s, outcome) =>
          /\ currentModel' = currentModel
          /\ error' = (IF outcome = "false" THEN SwitchFalseMessage ELSE ThrownMessage)
          /\ ~isModelSwitching'
    ]_vars

\* C17, the case: the quality model was selected with success, and a switch
\* back to the compatibility model has then failed.
C17_Witness ==
  /\ signal = "false"
  /\ switches = {}
  /\ currentModel = QualityModel
  /\ error = SwitchFalseMessage
  /\ ~isModelSwitching

\* C20: whenever no lifecycle operation is pending and the manager is Ready,
\* the model shown as selected is the model the manager has active (on a device
\* that shows the selector, i.e. not a constrained one).
C20_SelectedIsActive ==
  (~isIOS /\ readiness = "Ready") => currentModel = activeModelId

\* C21: a record without a cutout (its segmentation pending or failed) is not
\* removed individually: a step after which such a record is no longer in the
\* list is the clearing of the whole list that follows a failed initialization.
C21_UnsegmentedNotRemoved ==
  [][ \A i \in 1..Len(images) :
        (/\ images[i].processedFile = NoFile
         /\ positionsOf(images', images[i].file) = {})
        => /\ images' = <<>>
           /\ \E t \in drops : \E outcome \in {"false", "throw"} : InitDone(t, outcome)
    ]_vars

----------------------------------------------------------------------------
(* Properties of the specification of Images and EditModal. *)

\* C8: remove(id) releases everything held for the id: after onDelete(id) the
\* list has no record with that id and processedImageUrls has no entry for it;
\* removing an id the list does not hold changes nothing.
C8_RemoveReleasesOverride ==
  [][ /\ \A id \in Ids :
           onDelete(id) =>
             /\ \A i \in 1..Len(images') : images'[i].id # id
             /\ processedImageUrls'[id] = NoUrl
      /\ \A id \in Ids :
           (\A i \in 1..Len(images) : images[i].id # id) => remove(images, id) = images
    ]_vars

\* C9: a render whose background image does not decode still completes: while
\* it waits for the background, the step is possible that ends it and exports
\* the foreground over an empty background with the selected effect applied.
C9_RenderCompletesWithoutBackground ==
  \A r \in renders :
    (r.pc = "bgImg" /\ r.cfg.customBgImage = "corrupt") =>
      ENABLED (/\ NextEdit
               /\ r \notin renders'
               /\ exportUrl' = toDataURL(drawForeground(r.image) \o applyEffect(r.cfg)))

\* C11: edits are non-destructive: Save Changes (handleSave, handleEditSave)
\* sets the override of the edited id to the export and changes no other
\* override and no record (source file and cutout of every record stay), and no
\* step changes the source file of a record: every record of the list after a
\* step is one the step created, or a record of the list before it with the
\* same id and the same file.
C11_EditsNonDestructive ==
  [][ /\ handleSave =>
           /\ images' = images
           /\ processedImageUrls'[editingImage.id] = exportUrl
           /\ \A id \in Ids \ {editingImage.id} :
                processedImageUrls'[id] = processedImageUrls[id]
      /\ \A i \in 1..Len(images') :
           \/ images'[i].file >= nextFile
           \/ \E j \in 1..Len(images) :
                images'[i].id = images[j].id /\ images'[i].file = images[j].file
    ]_vars

\* C11, the case: an edit of image 0 was saved after an edit of image 1; both
\* records are as they were.
C11_Witness ==
  /\ ~isOpen
  /\ processedImageUrls[0].kind = "png"
  /\ processedImageUrls[1] # NoUrl
  /\ processedImageUrls[1] # processedImageUrls[0]
  /\ images = <<[id |-> 0, file |-> 1, processedFile |-> Seg(1)],
                [id |-> 1, file |-> 2, processedFile |-> Seg(2)]>>

\* the kinds of drawing operations of a canvas
isBackgroundOp(o) == o.op = "fillRect" \/ (o.op = "drawImage" /\ o.what = "bgImg")
isForegroundOp(o) == o.op = "drawImage" /\ o.what = "img"
isEffectOp(o) == o.op \in {"filter", "putImageData"}

\* the operations of the canvas are: background, then one foreground, then effect
inRenderOrder(canvas) ==
  \E k \in 1..Len(canvas) :
    /\ isForegroundOp(canvas[k])
    /\ \A i \in 1..(k - 1) : isBackgroundOp(canvas[i])
    /\ \A i \in (k + 1)..Len(canvas) : isEffectOp(canvas[i])

\* C15: the steps of a render have a fixed order: every step that sets exportUrl
\* ends a render and exports its canvas, on which the background was painted
\* first (the colour of the render's configuration when its type is colour),
\* the foreground drawn next, and the effect of the configuration, when it has
\* one, applied last, to the whole canvas; nothing else is ever exported.
C15_RenderOrder ==
  [][ exportUrl' # exportUrl =>
        \E r \in renders :
          /\ r \notin renders'
          /\ exportUrl'.kind = "png"
          /\ LET canvas == exportUrl'.canvas
                 last == canvas[Len(canvas)]
             IN /\ inRenderOrder(canvas)
                /\ r.cfg.bgType = "color" =>
                     canvas[1].op = "fillRect" /\ canvas[1].what = r.cfg.bgColor
                /\ IF r.cfg.selectedEffect = "none"
                   THEN isForegroundOp(last)
                   ELSE /\ isEffectOp(last)
                        /\ last.what = r.cfg.selectedEffect
                        /\ last.value = intensity(r.cfg, r.cfg.selectedEffect)
    ]_vars

\* C15, the case: a render with a black background and the brightness effect
\* has been exported.
C15_Witness ==
  exportUrl = toDataURL(<<Op("fillRect", "#000000", 0, 0), Op("drawImage", "img", 1, 0),
                          Op("putImageData", "brightness", 0, 50)>>)

\* the Files whose cutout is drawn on the canvas as the foreground
foregroundsOf(canvas) == {canvas[k].of : k \in {i \in 1..Len(canvas) : isForegroundOp(canvas[i])}}

\* C18: an override that is an exported bitmap is a render of the cutout of
\* the image it is saved for: the foreground drawn on its canvas is the cutout
\* of the File whose record has the id of the override.
C18_OverrideOfSameImage ==
  \A id \in Ids :
    processedImageUrls[id].kind = "png" =>
      \A f \in foregroundsOf(processedImageUrls[id].canvas) : idOf[f] = id

\* C19: once every render that was started has ended, the export is the
\* render of the current configuration, in whatever order the renders ended:
\* while the modal is open, no render is pending and the export is a render of
\* the image being edited, exportUrl is the composite of that image under the
\* current editing fields.
C19_LastRenderWins ==
  (/\ isOpen
   /\ renders = {}
   /\ exportUrl.kind = "png"
   /\ foregroundsOf(exportUrl.canvas) = {editingImage.processedFile.of})
  => exportUrl = composite([image |-> editingImage.processedFile, cfg |-> edit])

----------------------------------------------------------------------------
(* Properties of the specification of the effect controls. *)

\* C12: pressing an effect button leaves the three stored intensities as they
\* are, and the slider then shows the stored intensity of the kind chosen; a
\* slider move sets the intensity of the selected kind to the slider's value
\* and leaves the other two; no step changes an intensity of a kind that is
\* not the selected one (none of them while the kind is 'none').
C12_IntensitiesKeptPerKind ==
  [][ /\ \A effect \in Effects :
           setSelectedEffect(effect) =>
             /\ \A kind \in Effects \ {"none"} :
                  intensity(edit', kind) = intensity(edit, kind)
             /\ effect # "none" => getCurrentEffectValue' = intensity(edit, effect)
      /\ \A value \in SliderValues :
           handleEffectValueChange(value) =>
             \A kind \in Effects \ {"none"} :
               intensity(edit', kind) =
                 IF kind = edit.selectedEffect THEN value ELSE intensity(edit, kind)
      /\ \A kind \in Effects \ {"none"} :
           intensity(edit', kind) # intensity(edit, kind) => edit.selectedEffect = kind
    ]_vars

\* C12, the case: blur is selected and shows 100 while brightness keeps 0, each
\* set while its own kind was selected, with a change of kind in between.
C12_Witness ==
  /\ edit.selectedEffect = "blur"
  /\ getCurrentEffectValue = 100
  /\ edit.brightnessValue = 0
  /\ edit.contrastValue = 50

----------------------------------------------------------------------------
(* Properties of the specification of the effect loops. *)

\* C13: for every intensity 0..100 and every channel value 0..255, the red,
\* green and blue values the brightness and the contrast loop leave in data
\* lie in 0..255, and the alpha of the pixel is the one getImageData returned.
C13_ChannelsInRange ==
  /\ \A i \in 1..3 : data[i] \in Channel
  /\ data[4] = source[4]

\* C13, the case: contrast at intensity 100 has run over a pixel whose red is
\* 255 and whose green is 0, where the formula gives 416 and -162.
C13_Witness ==
  /\ passes = 1
  /\ edit.selectedEffect = "contrast"
  /\ edit.contrastValue = 100
  /\ source[1] = 255 /\ source[2] = 0
  /\ data[1] = 255 /\ data[2] = 0
  /\ data[4] = 255

\* C14: contrast does not compose: there are channel values, those of 70..111
\* among them, for which the contrast loop run twice at intensity 50 leaves a
\* value that is neither the one contrast at intensity 100 gives in one run nor
\* the one contrast at intensity 50 gives in one run.
C14_ContrastDoesNotCompose ==
  (/\ passes = 2
   /\ edit.selectedEffect = "contrast"
   /\ edit.contrastValue = 50
   /\ source[1] \in 70..111)
  => /\ data[1] # contrast(source[1], 100)
     /\ data[1] # contrast(source[1], 50)

\* C14, the case: the contrast loop has run twice at intensity 50 over a red of
\* 100 and left 66; one run at 100 gives 65, one run at 50 gives 86.
C14_Witness ==
  /\ passes = 2
  /\ edit.selectedEffect = "contrast"
  /\ edit.contrastValue = 50
  /\ source[1] = 100
  /\ data[1] = 66
  /\ contrast(100, 100) = 65
  /\ contrast(100, 50) = 86

====
